---- MODULE Spec2Model ----
(***************************************************************************)
(* Line-of-sight over a heightmap: los_boolean (grid DDA traversal) and    *)
(* los_probability (multi-ray sampler) of src/src/los.cpp.                 *)
(*                                                                         *)
(* Coordinates are doubles in the source.  Here a coordinate is an integer *)
(* numerator over a positive denominator (call.x0 / Den for the host's     *)
(* arguments, arg.x0 / arg.den inside los_boolean), and every parametric   *)
(* value (tMaxX, tDeltaX, t, rayHeight) is an exact fraction [num, den]    *)
(* with the IEEE special values kept: den = 0 is +infinity (num > 0),      *)
(* -infinity (num < 0) or NaN (num = 0).  Rounding of doubles is not       *)
(* modelled.                                                               *)
(***************************************************************************)
EXTENDS Integers, Sequences, FiniteSets, TLC

\* ------------------------------------------------------------- bounds
\* Grid the host passes (width x height cells).
GridW == 3
GridH == GridW
\* Host coordinates are multiples of 1/Den ...
Den == 2
\* ... with numerators in MinCoord .. MaxCoord (so -1/2 .. 3 at Den = 2).
MaxCoord == 6
MinCoord == 0 - 1
\* The sampler's specifications draw the endpoints from these numerators.
ProbX == {1, 2, 6}
ProbY == {1, 2, 5}
Coords == MinCoord .. MaxCoord

\* Elevations of the two endpoints, and the terrain heights of a cell.
ZPairs == {<<10, 10>>, <<0, 10>>, <<10, 0>>}
OccluderHeights == {5, 11}

\* int num_samples = 9 (the default of los_probability).
DefaultSamples == 9

\* (width, height) pairs: the full grid and two degenerate ones.
Dims == {<<GridW, GridH>>, <<0, GridH>>, <<GridW, 0 - 1>>}

VARIABLES
    width, height, heightmap, \* the host's grid: heightmap[row * width + col]
    call,                     \* the host's invocation: fn, x0 .. z1, num_samples
    pc,                       \* position: "entry", "loop", "sample", "sampled", "done"
    arg,                      \* los_boolean's arguments: x0, y0, z0, x1, y1, z1 (over arg.den)
    x, y, tMaxX, tMaxY,       \* los_boolean's traversal state
    visited,                  \* history: cells read by the current los_boolean call
    i, successful_rays,       \* los_probability's loop state
    probes,                   \* history: every los_boolean call of this invocation
    ret,                      \* the value returned to the host, a fraction
    prev                      \* history: the outcome of the host's previous invocation

vars == <<width, height, heightmap, call, pc, arg, x, y, tMaxX, tMaxY,
          visited, i, successful_rays, probes, ret, prev>>

None == [none |-> TRUE]

\* ---------------------------------------------------------- doubles
Abs(n) == IF n < 0 THEN 0 - n ELSE n
Sign(n) == IF n < 0 THEN 0 - 1 ELSE IF n > 0 THEN 1 ELSE 0

\* n / d as a double: den > 0, or den = 0 for +-infinity and NaN.
Rat(n, d) ==
    IF d < 0 THEN [num |-> 0 - n, den |-> 0 - d]
    ELSE IF d = 0 THEN [num |-> Sign(n), den |-> 0]
    ELSE [num |-> n, den |-> d]

Infinity == [num |-> 1, den |-> 0]
IsNaN(a) == a.den = 0 /\ a.num = 0

\* a < b on doubles: false whenever a or b is NaN.
RatLT(a, b) ==
    IF IsNaN(a) \/ IsNaN(b) THEN FALSE
    ELSE IF a.den = 0 /\ b.den = 0 THEN a.num < b.num
    ELSE a.num * b.den < b.num * a.den

\* a + b on doubles (never called with infinities of opposite sign).
RatAdd(a, b) ==
    IF IsNaN(a) \/ IsNaN(b) THEN [num |-> 0, den |-> 0]
    ELSE IF a.den = 0 THEN a
    ELSE IF b.den = 0 THEN b
    ELSE IF a.den = b.den THEN [num |-> a.num + b.num, den |-> a.den]
    ELSE [num |-> a.num * b.den + b.num * a.den, den |-> a.den * b.den]

\* ------------------------------------------------------ los_boolean
\* Direction (numerators over arg.den).
dx == arg.x1 - arg.x0
dy == arg.y1 - arg.y0
dz == arg.z1 - arg.z0

Floor(n, d) == n \div d

endX == Floor(arg.x1, arg.den)
endY == Floor(arg.y1, arg.den)

stepX == IF dx > 0 THEN 1 ELSE 0 - 1
stepY == IF dy > 0 THEN 1 ELSE 0 - 1

tDeltaX == IF dx # 0 THEN Rat(arg.den, Abs(dx)) ELSE Infinity
tDeltaY == IF dy # 0 THEN Rat(arg.den, Abs(dy)) ELSE Infinity

\* The traversal state at the head of the loop for arguments a.
StartCell(a) == <<Floor(a.x0, a.den), Floor(a.y0, a.den)>>

InitTMax(p0, p1, den) ==
    LET d == p1 - p0
        c == Floor(p0, den)
        nextGrid == IF d > 0 THEN c + 1 ELSE c
    IN  IF d # 0 THEN Rat(nextGrid * den - p0, d) ELSE Infinity

\* Variants of the bounds check with one comparison missing.
OutOfBoundsNoUpperY == x < 0 \/ y < 0 \/ x >= width
OutOfBoundsNoUpperX == x < 0 \/ y < 0 \/ y >= height

OutOfBounds == x < 0 \/ y < 0 \/ x >= width \/ y >= height

\* t along the ray at the current cell, clamped to [0, 1] (NaN stays NaN).
Clamp(v) ==
    LET tv == v
    IN  IF RatLT(tv, Rat(0, 1)) THEN Rat(0, 1)
        ELSE IF RatLT(Rat(1, 1), tv) THEN Rat(1, 1)
        ELSE tv

t ==
    Clamp(IF Abs(dx) > Abs(dy)
          THEN Rat(x * arg.den - arg.x0, dx)
          ELSE Rat(y * arg.den - arg.y0, dy))

\* z0 + t * dz
rayHeight ==
    LET tc == t
    IN  IF IsNaN(tc) THEN tc
        ELSE [num |-> arg.z0 * tc.den + tc.num * dz, den |-> tc.den]

\* ptr[y * width + x]: the element read; outside the buffer the read is
\* undefined behaviour and may yield any value.
\* Variant: row and column exchanged.
IndexTransposed(cx, cy) == cx * width + cy

Index(cx, cy) == cy * width + cx

Heights == {0} \cup OccluderHeights

TerrainRead ==
    IF Index(x, y) \in DOMAIN heightmap
    THEN {heightmap[Index(x, y)]}
    ELSE Heights

\* Variant: the comparison reversed.
OccludesBelow(terrain) == RatLT(Rat(terrain, 1), rayHeight)

Occludes(terrain) == RatLT(rayHeight, Rat(terrain, 1))

AtEnd == x = endX /\ y = endY

\* Variant: X also steps on a tie.
StepsXOnTie == ~RatLT(tMaxY, tMaxX)

StepsX == RatLT(tMaxX, tMaxY)

\* los_boolean returns v: to the host, or to los_probability's loop.
Return(v) ==
    /\ probes' = Append(probes, [arg |-> arg, result |-> v, visited |-> visited'])
    /\ IF call.fn = "los_boolean" \/ call.num_samples = 1
       THEN pc' = "done" /\ ret' = Rat(v, 1)
       ELSE pc' = "sampled" /\ ret' = ret

ReturnOutOfBounds ==
    /\ pc = "loop"
    /\ OutOfBounds
    /\ visited' = visited
    /\ Return(0)
    /\ UNCHANGED <<width, height, heightmap, call, arg, x, y, tMaxX, tMaxY,
                   i, successful_rays, prev>>

ReturnOccluded ==
    /\ pc = "loop"
    /\ ~OutOfBounds
    /\ \E terrain \in TerrainRead : Occludes(terrain)
    /\ visited' = Append(visited, <<x, y>>)
    /\ Return(0)
    /\ UNCHANGED <<width, height, heightmap, call, arg, x, y, tMaxX, tMaxY,
                   i, successful_rays, prev>>

BreakAtEnd ==
    /\ pc = "loop"
    /\ ~OutOfBounds
    /\ AtEnd
    /\ \E terrain \in TerrainRead : ~Occludes(terrain)
    /\ visited' = Append(visited, <<x, y>>)
    /\ Return(1)
    /\ UNCHANGED <<width, height, heightmap, call, arg, x, y, tMaxX, tMaxY,
                   i, successful_rays, prev>>

StepX ==
    /\ pc = "loop"
    /\ ~OutOfBounds
    /\ ~AtEnd
    /\ StepsX
    /\ \E terrain \in TerrainRead : ~Occludes(terrain)
    /\ tMaxX' = RatAdd(tMaxX, tDeltaX)
    /\ x' = x + stepX
    /\ visited' = Append(visited, <<x, y>>)
    /\ UNCHANGED <<width, height, heightmap, call, pc, arg, y, tMaxY,
                   i, successful_rays, probes, ret, prev>>

StepY ==
    /\ pc = "loop"
    /\ ~OutOfBounds
    /\ ~AtEnd
    /\ ~StepsX
    /\ \E terrain \in TerrainRead : ~Occludes(terrain)
    /\ tMaxY' = RatAdd(tMaxY, tDeltaY)
    /\ y' = y + stepY
    /\ visited' = Append(visited, <<x, y>>)
    /\ UNCHANGED <<width, height, heightmap, call, pc, arg, x, tMaxX,
                   i, successful_rays, probes, ret, prev>>

\* ------------------------------------------------------------ inputs
\* Heightmaps of n cells: flat, or flat but for one cell.
Flat(n) == [k \in 0 .. n - 1 |-> 0]
Heightmaps(n) ==
    {Flat(n)} \cup {[Flat(n) EXCEPT ![c] = h] : c \in 0 .. n - 1, h \in OccluderHeights}

\* Entering los_boolean with arguments a: lines 14-51.
Enter(a) ==
    /\ arg' = a
    /\ x' = StartCell(a)[1]
    /\ y' = StartCell(a)[2]
    /\ tMaxX' = InitTMax(a.x0, a.x1, a.den)
    /\ tMaxY' = InitTMax(a.y0, a.y1, a.den)
    /\ visited' = <<>>
    /\ pc' = "loop"

ArgOf(c) ==
    [x0 |-> c.x0, y0 |-> c.y0, z0 |-> c.z0,
     x1 |-> c.x1, y1 |-> c.y1, z1 |-> c.z1, den |-> Den]

Calls(fns, xs, ys, counts) ==
    {[fn |-> f, x0 |-> a0, y0 |-> b0, z0 |-> z[1],
      x1 |-> a1, y1 |-> b1, z1 |-> z[2], num_samples |-> n] :
        f \in fns, a0 \in xs, b0 \in ys, a1 \in xs, b1 \in ys,
        z \in ZPairs, n \in counts}

\* The host has called los_boolean, which stands at the head of its loop.
Init ==
    /\ \E d \in Dims : width = d[1] /\ height = d[2]
    /\ heightmap \in Heightmaps(width * height)
    /\ call \in Calls({"los_boolean"}, Coords, Coords, {1})
    /\ arg = ArgOf(call)
    /\ x = StartCell(arg)[1]
    /\ y = StartCell(arg)[2]
    /\ tMaxX = InitTMax(arg.x0, arg.x1, arg.den)
    /\ tMaxY = InitTMax(arg.y0, arg.y1, arg.den)
    /\ visited = <<>>
    /\ pc = "loop"
    /\ i = 0
    /\ successful_rays = 0
    /\ probes = <<>>
    /\ ret = None
    /\ prev = None

\* -------------------------------------------------- los_probability
\* double offset_range = 2.0
offset_range == 2

\* static_cast<int>(std::sqrt(n)), then rounded up to cover n.
IntSqrt(n) == CHOOSE r \in 0 .. n : r * r <= n /\ (r + 1) * (r + 1) > n
GridSize(n) == IF IntSqrt(n) * IntSqrt(n) < n THEN IntSqrt(n) + 1 ELSE IntSqrt(n)

grid_size == GridSize(call.num_samples)
grid_x == i % grid_size
grid_y == i \div grid_size

\* (g - grid_size / 2.0) * (offset_range / grid_size), as a fraction over
\* 2 * grid_size.
OffsetNum(g) == (2 * g - grid_size) * offset_range
OffsetDen == 2 * grid_size

\* p / Den + offset(g), as a numerator over Den * OffsetDen.
SampleCoord(p, g) == p * OffsetDen + OffsetNum(g) * Den

SampleArg ==
    [x0 |-> SampleCoord(call.x0, grid_x), y0 |-> SampleCoord(call.y0, grid_y),
     z0 |-> call.z0,
     x1 |-> SampleCoord(call.x1, grid_x), y1 |-> SampleCoord(call.y1, grid_y),
     z1 |-> call.z1, den |-> Den * OffsetDen]

\* Variant: result > -0.5.
SuccessfulAlways(result) == 2 * result > 0 - 1

\* result > 0.5
Successful(result) == 2 * result > 1

\* if (num_samples == 1) return los_boolean(...)
ProbSingle ==
    /\ pc = "entry"
    /\ call.fn = "los_probability"
    /\ call.num_samples = 1
    /\ Enter(ArgOf(call))
    /\ UNCHANGED <<width, height, heightmap, call, i, successful_rays,
                   probes, ret, prev>>

\* int successful_rays = 0; ... for (int i = 0; ...
ProbBegin ==
    /\ pc = "entry"
    /\ call.fn = "los_probability"
    /\ call.num_samples # 1
    /\ successful_rays' = 0
    /\ i' = 0
    /\ pc' = "sample"
    /\ UNCHANGED <<width, height, heightmap, call, arg, x, y, tMaxX, tMaxY,
                   visited, probes, ret, prev>>

\* The loop body up to the call of los_boolean for sample i.
ProbSample ==
    /\ pc = "sample"
    /\ i < call.num_samples
    /\ Enter(SampleArg)
    /\ UNCHANGED <<width, height, heightmap, call, i, successful_rays,
                   probes, ret, prev>>

\* if (result > 0.5) successful_rays++;  and the loop's i++.
ProbCount ==
    /\ pc = "sampled"
    /\ successful_rays' = IF Successful(probes[Len(probes)].result)
                          THEN successful_rays + 1 ELSE successful_rays
    /\ i' = i + 1
    /\ pc' = "sample"
    /\ UNCHANGED <<width, height, heightmap, call, arg, x, y, tMaxX, tMaxY,
                   visited, probes, ret, prev>>

\* return static_cast<double>(successful_rays) / num_samples;
ProbReturn ==
    /\ pc = "sample"
    /\ i >= call.num_samples
    /\ ret' = Rat(successful_rays, call.num_samples)
    /\ pc' = "done"
    /\ UNCHANGED <<width, height, heightmap, call, arg, x, y, tMaxX, tMaxY,
                   visited, i, successful_rays, probes, prev>>

\* -------------------------------------------------------------- host
\* The host calls los_boolean directly.
CallBoolean ==
    /\ pc = "entry"
    /\ call.fn = "los_boolean"
    /\ Enter(ArgOf(call))
    /\ UNCHANGED <<width, height, heightmap, call, i, successful_rays,
                   probes, ret, prev>>

LowerOrEqual(h, g) == \A k \in DOMAIN g : h[k] <= g[k]

\* The host lowers the terrain of its heightmap and repeats the call with
\* the same arguments (once: prev remembers the first outcome).
Recall ==
    /\ pc = "done"
    /\ prev = None
    /\ \E h \in Heightmaps(width * height) :
          /\ h # heightmap
          /\ LowerOrEqual(h, heightmap)
          /\ heightmap' = h
    /\ prev' = [heightmap |-> heightmap, call |-> call, ret |-> ret, probes |-> probes]
    /\ probes' = <<>>
    /\ ret' = None
    /\ pc' = "entry"
    /\ UNCHANGED <<width, height, call, arg, x, y, tMaxX, tMaxY, visited,
                   i, successful_rays>>

\* The host repeats a call of los_boolean with other elevations of the two
\* endpoints (once).
RecallElevations ==
    /\ pc = "done"
    /\ prev = None
    /\ call.fn = "los_boolean"
    /\ \E z \in ZPairs :
          /\ z # <<call.z0, call.z1>>
          /\ call' = [call EXCEPT !.z0 = z[1], !.z1 = z[2]]
    /\ prev' = [heightmap |-> heightmap, call |-> call, ret |-> ret, probes |-> probes]
    /\ probes' = <<>>
    /\ ret' = None
    /\ pc' = "entry"
    /\ UNCHANGED <<width, height, heightmap, arg, x, y, tMaxX, tMaxY, visited,
                   i, successful_rays>>

\* -------------------------------------------------- specifications
LosBoolean ==
    \/ ReturnOutOfBounds
    \/ ReturnOccluded
    \/ BreakAtEnd
    \/ StepX
    \/ StepY

\* One call of los_boolean over the whole range of coordinates.
Next == LosBoolean

Spec == Init /\ [][Next]_vars

\* Both entry points and the sampler's counts, on the full grid and the
\* degenerate ones.
SampleCounts == {1, 2, DefaultSamples}

ProbCalls ==
    Calls({"los_boolean"}, ProbX, ProbY, {1})
        \cup Calls({"los_probability"}, ProbX, ProbY, SampleCounts)

InitProb ==
    /\ \E d \in Dims : width = d[1] /\ height = d[2]
    /\ heightmap \in Heightmaps(width * height)
    /\ call \in ProbCalls
    /\ arg = ArgOf(call)
    /\ x = StartCell(arg)[1]
    /\ y = StartCell(arg)[2]
    /\ tMaxX = InitTMax(arg.x0, arg.x1, arg.den)
    /\ tMaxY = InitTMax(arg.y0, arg.y1, arg.den)
    /\ visited = <<>>
    /\ pc = "entry"
    /\ i = 0
    /\ successful_rays = 0
    /\ probes = <<>>
    /\ ret = None
    /\ prev = None

NextProb ==
    \/ LosBoolean
    \/ CallBoolean
    \/ ProbSingle
    \/ ProbBegin
    \/ ProbSample
    \/ ProbCount
    \/ ProbReturn

SpecProb == InitProb /\ [][NextProb]_vars

\* The same calls on the full grid, each repeated once on lowered terrain
\* or, for los_boolean, with other elevations.
InitMono ==
    /\ InitProb
    /\ width = GridW
    /\ height = GridH

NextMono ==
    \/ NextProb
    \/ Recall
    \/ RecallElevations

SpecMono == InitMono /\ [][NextMono]_vars

\* ------------------------------------------------------------ claims
Done == pc = "done"
One == Rat(1, 1)
Zero == Rat(0, 1)
Max(a, b) == IF a > b THEN a ELSE b

InGrid(c) == c[1] >= 0 /\ c[1] < width /\ c[2] >= 0 /\ c[2] < height
EndCell(a) == <<Floor(a.x1, a.den), Floor(a.y1, a.den)>>
CallStart == StartCell(ArgOf(call))
CallEnd == EndCell(ArgOf(call))
CellOf(k) == <<k % width, k \div width>>

IsFlat == \A k \in DOMAIN heightmap : heightmap[k] = 0
OnlyOccluder(c) ==
    /\ c \in DOMAIN heightmap
    /\ heightmap[c] # 0
    /\ \A k \in DOMAIN heightmap : k # c => heightmap[k] = 0

\* The segment of the call has a point strictly inside cell (cx, cy).  The
\* parameters at which it is inside form an open interval whose ends are
\* multiples of 1 / (|dx| * |dy|) (numerators), so if there is one, there is
\* one among the multiples of 1 / n for n twice that product.
PassesInterior(cx, cy) ==
    LET da == call.x1 - call.x0
        db == call.y1 - call.y0
        n == 2 * Max(1, Abs(da)) * Max(1, Abs(db))
    IN  \E k \in 0 .. n :
            LET px == call.x0 * n + k * da
                py == call.y0 * n + k * db
            IN  /\ cx * Den * n < px /\ px < (cx + 1) * Den * n
                /\ cy * Den * n < py /\ py < (cy + 1) * Den * n

IsPrefix(p, q) == Len(p) <= Len(q) /\ \A k \in 1 .. Len(p) : p[k] = q[k]

\* C1: on flat terrain with z0 = z1 = 10, los_boolean returns 1.0 for every
\* segment whose start cell and end cell are both inside the grid.
C1_FlatTerrainVisible ==
    (Done /\ IsFlat /\ call.z0 = 10 /\ call.z1 = 10
          /\ InGrid(CallStart) /\ InGrid(CallEnd))
        => ret = One

\* C2: if the start cell or the end cell lies outside the grid, los_boolean
\* returns 0.0, never 1.0.
C2_OutsideReturnsZero ==
    (Done /\ (~InGrid(CallStart) \/ ~InGrid(CallEnd))) => ret = Zero

\* C2 witness: a ray that starts inside, walks at least two cells, ends
\* outside the grid, and has returned.
C2_Witness ==
    /\ Done
    /\ InGrid(CallStart)
    /\ ~InGrid(CallEnd)
    /\ Len(visited) >= 2
    /\ ret = Zero

C4_SameCellUsesZ0 ==
    (Done /\ CallStart = CallEnd /\ InGrid(CallStart))
        => /\ Len(visited) = 1
           /\ (ret = One) <=> (heightmap[Index(CallStart[1], CallStart[2])] <= call.z0)

TieBreakStep ==
    (pc = "loop" /\ pc' = "loop" /\ (x' # x \/ y' # y))
        => /\ (~RatLT(tMaxX, tMaxY) /\ ~RatLT(tMaxY, tMaxX))
                => (x' = x /\ y' = y + stepY /\ tMaxX' = tMaxX
                    /\ tMaxY' = RatAdd(tMaxY, tDeltaY))
           /\ x' # x => RatLT(tMaxX, tMaxY)

DiagonalCall ==
    /\ call.x0 = 0 /\ call.y0 = 0
    /\ call.x1 = 2 * Den /\ call.y1 = 2 * Den
    /\ width >= 3 /\ height >= 3

DiagonalPath == <<(<<0, 0>>), (<<0, 1>>), (<<1, 1>>), (<<1, 2>>), (<<2, 2>>)>>

DiagonalExample ==
    DiagonalCall =>
        /\ IsPrefix(visited, DiagonalPath)
        /\ (Done /\ IsFlat) => (ret = One /\ visited = DiagonalPath)
        /\ (Done /\ OnlyOccluder(Index(0, 1))
                 /\ 2 * heightmap[Index(0, 1)] > call.z0 + call.z1)
              => (ret = Zero /\ visited = SubSeq(DiagonalPath, 1, 2))
        /\ (Done /\ OnlyOccluder(Index(1, 0)))
              => (ret = One /\ visited = DiagonalPath)

\* C7: whenever the loop advances with tMaxX = tMaxY it steps Y and leaves X
\* alone, and it steps X only when tMaxX < tMaxY; so the ray (0,0) -> (2,2)
\* visits (0,0), (0,1), (1,1), (1,2), (2,2): terrain above the ray at (0,1)
\* blocks it, terrain at (1,0) does not.
C7_CornerTieBreak == [][TieBreakStep]_vars /\ []DiagonalExample

\* C7 witness: the diagonal ray has returned 1.0 past an occluder at (1,0).
C7_Witness ==
    /\ Done
    /\ DiagonalCall
    /\ OnlyOccluder(Index(1, 0))
    /\ heightmap[Index(1, 0)] > Max(call.z0, call.z1)
    /\ ret = One

\* C8: los_boolean examines at most |endX - startX| + |endY - startY| + 1
\* cells, whatever the width and height.
C8_IterationBound ==
    Len(visited) <= Abs(endX - StartCell(arg)[1]) + Abs(endY - StartCell(arg)[2]) + 1

SuccessCount == Cardinality({j \in 1 .. Len(probes) : probes[j].result = 1})

\* C5: los_probability returns k / sampleCount, k the number of its probes
\* for which los_boolean returned 1.0 (so 0 <= k <= sampleCount and the
\* result is in [0, 1]); with sampleCount = 1 the one probe is the
\* unperturbed ray and the result is los_boolean's.
C5_SamplerResult ==
    (Done /\ call.fn = "los_probability")
        => /\ Len(probes) = call.num_samples
           /\ ret = Rat(SuccessCount, call.num_samples)
           /\ SuccessCount \in 0 .. call.num_samples
           /\ ~RatLT(ret, Zero) /\ ~RatLT(One, ret)
           /\ call.num_samples = 1
                => (probes[1].arg = ArgOf(call) /\ ret = Rat(probes[1].result, 1))

\* C5 witness: nine probes of which some but not all succeeded.
C5_Witness ==
    /\ Done
    /\ call.fn = "los_probability"
    /\ call.num_samples = DefaultSamples
    /\ SuccessCount > 0
    /\ SuccessCount < call.num_samples
    /\ ret = Rat(SuccessCount, DefaultSamples)

\* Offsets of probe j, as numerators over Den * probes[j].arg.den.
OffsetX0(j) == probes[j].arg.x0 * Den - call.x0 * probes[j].arg.den
OffsetY0(j) == probes[j].arg.y0 * Den - call.y0 * probes[j].arg.den
OffsetX1(j) == probes[j].arg.x1 * Den - call.x1 * probes[j].arg.den
OffsetY1(j) == probes[j].arg.y1 * Den - call.y1 * probes[j].arg.den

RigidProbes ==
    \A j \in 1 .. Len(probes) :
        /\ OffsetX0(j) = OffsetX1(j)
        /\ OffsetY0(j) = OffsetY1(j)
        /\ probes[j].arg.z0 = call.z0
        /\ probes[j].arg.z1 = call.z1

\* C6: for sampleCount >= 2 the lateral offsets along X are symmetric about
\* zero (smallest = -largest), for sampleCount = 9 one probe is the
\* unperturbed ray, both endpoints of a probe get the same offset, and z0,
\* z1 are passed unchanged.
C6_CenteredPattern ==
    (Done /\ call.fn = "los_probability" /\ call.num_samples >= 2)
        => /\ \E lo, hi \in 1 .. Len(probes) :
                /\ OffsetX0(lo) = 0 - OffsetX0(hi)
                /\ \A j \in 1 .. Len(probes) :
                      OffsetX0(lo) <= OffsetX0(j) /\ OffsetX0(j) <= OffsetX0(hi)
           /\ call.num_samples = 9
                => \E j \in 1 .. Len(probes) : OffsetX0(j) = 0 /\ OffsetY0(j) = 0
           /\ RigidProbes

\* C9: every heightmap read happens at a cell with 0 <= x < width and
\* 0 <= y < height, so at an index inside the buffer, whatever the endpoints
\* of the call or of a probe; with width <= 0 or height <= 0 nothing is read.
C9_ReadsInBuffer ==
    /\ \A k \in 1 .. Len(visited) :
          /\ InGrid(visited[k])
          /\ Index(visited[k][1], visited[k][2]) \in 0 .. width * height - 1
          /\ Index(visited[k][1], visited[k][2]) \in DOMAIN heightmap
    /\ (width <= 0 \/ height <= 0) => visited = <<>>

\* C9 witness: a probe of the sampler whose end point lies beyond the grid
\* has read two cells and then left the grid.
C9_Witness ==
    /\ pc = "sampled"
    /\ call.fn = "los_probability"
    /\ InGrid(CallEnd)
    /\ ~InGrid(EndCell(arg))
    /\ Len(visited) >= 2
    /\ OutOfBounds

SameRay(a, b) ==
    /\ a.x0 = b.x0 /\ a.y0 = b.y0 /\ a.x1 = b.x1 /\ a.y1 = b.y1 /\ a.den = b.den

\* C10: the cells los_boolean visits do not depend on the terrain or on z
\* except for where the walk stops (of two calls with the same x, y
\* arguments, one visits a prefix of what the other visits); and with
\* terrain lowered pointwise and the same arguments, every los_boolean call
\* visits at least the cells visited before, a result of 1.0 stays 1.0, and
\* los_probability does not decrease.
C10_LoweringKeepsSight ==
    (Done /\ prev # None)
        => /\ Len(probes) = Len(prev.probes)
           /\ \A j \in 1 .. Len(probes) :
                 /\ SameRay(probes[j].arg, prev.probes[j].arg)
                 /\ \/ IsPrefix(prev.probes[j].visited, probes[j].visited)
                    \/ IsPrefix(probes[j].visited, prev.probes[j].visited)
           /\ (call = prev.call /\ LowerOrEqual(heightmap, prev.heightmap))
                => /\ ~RatLT(ret, prev.ret)
                   /\ \A j \in 1 .. Len(probes) :
                         /\ IsPrefix(prev.probes[j].visited, probes[j].visited)
                         /\ prev.probes[j].result = 1 => probes[j].result = 1

\* C10 witness: lowering the terrain raised the probability of nine probes.
C10_Witness ==
    /\ Done
    /\ prev # None
    /\ call = prev.call
    /\ heightmap # prev.heightmap
    /\ call.num_samples = DefaultSamples
    /\ RatLT(prev.ret, ret)
    /\ RatLT(Zero, prev.ret)

====
